---------------------------- MODULE Spec2Model ----------------------------
(***************************************************************************)
(* A model of ccinp-extractor (src/src/main.rs): an HTTP server that, per  *)
(* request, decodes the embedded exercise document, filters its page tree  *)
(* down to the pages of the requested exercises and returns the result.    *)
(*                                                                         *)
(* The PDF library (mupdf) is abstracted to what the program uses of it: a *)
(* tree of typed nodes with a Kids array and a Count, a catalog with an    *)
(* Outlines entry, and a serializer.  A page's content stream is           *)
(* abstracted to the value the marker scan returns on it; the scan itself  *)
(* is modelled on byte strings by read_exercise_number.  The two library   *)
(* calls after the traversal may fail.  Panics unwind (Rust's default): a  *)
(* panicking handler ends its task and poisons the mutex.                  *)
(***************************************************************************)
EXTENDS Integers, Sequences, FiniteSets, TLC

\* ------------------------------------------------------------------ bounds
\* Nodes of the largest page tree.
MaxNodes == 4
\* Nodes of one tree that are neither Page nor Pages (untyped or mistyped).
MaxOdd == 1
\* Comma-separated parts of a generated request path.
MaxParts == 2
\* Request-handler tasks (connections) alive at once.
NumHandlers == 2
\* Pieces a scanned content stream is put together from.
MaxPieces == 4
\* Nodes of the largest page tree in the runs that keep a log of an extraction.
MaxLogNodes == 3

\* i32, the type of an exercise number (main.rs:233).
I32Max == 2147483647
I32Min == (-I32Max) - 1

\* ------------------------------------------------------------- small tools
\* Option<T>: None is <<>>, Some(x) is <<x>>.
None == <<>>
Some(x) == <<x>>
IsSome(o) == o # <<>>

Range(s) == {s[i] : i \in DOMAIN s}

Contains(s, x) == \E i \in DOMAIN s : s[i] = x

RECURSIVE SetToSeq(_)
\* The elements of a finite set of integers in increasing order.
SetToSeq(S) ==
  IF S = {} THEN <<>>
  ELSE LET m == CHOOSE x \in S : \A y \in S : x <= y
       IN <<m>> \o SetToSeq(S \ {m})

\* Vec::remove / pdf array_delete at a 1-based position.
RemoveAt(s, k) == [j \in 1..(Len(s) - 1) |-> IF j < k THEN s[j] ELSE s[j + 1]]

\* Vec::swap_remove at a 1-based position: the last element takes the place.
SwapRemove(s, k) ==
  [j \in 1..(Len(s) - 1) |-> IF j = k THEN s[Len(s)] ELSE s[j]]

\* ------------------------------------------------------- the source document
\* What a tree node can be: a Page whose content scans to some label or to
\* none, a Pages node, a node without a readable Type, a node of another Type.
Labels == {-1, 1, 2}

NodeKinds ==
  {[ty |-> "Page", label |-> l] : l \in {None} \cup {Some(n) : n \in Labels}}
    \cup {[ty |-> t, label |-> None] : t \in {"Pages", "NoType", "Other"}}

RECURSIVE AncSelf(_, _)
AncSelf(par, n) == IF n = 0 THEN {} ELSE {n} \cup AncSelf(par, par[n])

\* Parent vectors of the ordered trees on 1..N numbered in document order
\* (preorder): node 1 is the root, a node hangs under an ancestor-or-self of
\* the node before it.
ParentVecs(N) ==
  {par \in [1..N -> 0..(N - 1)] :
     /\ par[1] = 0
     /\ \A n \in 2..N : par[n] >= 1 /\ par[n] < n
     /\ \A n \in 3..N : par[n] \in AncSelf(par, n - 1)}

ChildSet(par, N, n) == {m \in 1..N : par[m] = n}

\* Only Pages and untyped nodes are given children: the Kids of a Page or
\* of a mistyped node are never read.
KindAssigns(par, N) ==
  {kind \in [1..N -> NodeKinds] :
     /\ \A n \in 1..N :
          ChildSet(par, N, n) # {} => kind[n].ty \in {"Pages", "NoType"}
     /\ Cardinality({n \in 1..N : kind[n].ty \in {"NoType", "Other"}}) <= MaxOdd}

RECURSIVE PagesUnder(_, _, _)
\* How many Page nodes lie below node n, given the Kids arrays.
PagesUnder(ty, kids, n) ==
  LET RECURSIVE Sum(_)
      Sum(k) ==
        IF k = 0 THEN 0
        ELSE LET c == kids[n][k]
             IN (IF ty[c] = "Page" THEN 1 ELSE 0)
                  + PagesUnder(ty, kids, c) + Sum(k - 1)
  IN Sum(Len(kids[n]))

\* A decodable document: Count of every node is its number of Page
\* descendants, the catalog carries an Outlines entry.
MkDoc(N, par, kind) ==
  LET ty == [n \in 1..N |-> kind[n].ty]
      kids == [n \in 1..N |-> SetToSeq(ChildSet(par, N, n))]
  IN [form |-> "tree",
      root |-> 1,
      ty |-> ty,
      label |-> [n \in 1..N |-> kind[n].label],
      kids |-> kids,
      count |-> [n \in 1..N |-> PagesUnder(ty, kids, n)]]

\* Bytes mupdf cannot open, and a document whose catalog has no Pages entry.
BrokenDoc(form) ==
  [form |-> form, root |-> 0, ty |-> <<>>, label |-> <<>>, kids |-> <<>>,
   count |-> <<>>]

Docs ==
  UNION {{MkDoc(N, par, kind) : kind \in KindAssigns(par, N)} :
           <<N, par>> \in UNION {{<<N, par>> : par \in ParentVecs(N)} : N \in 1..MaxNodes}}
    \cup {BrokenDoc("corrupt"), BrokenDoc("nopages")}

\* ------------------------------------------------------------ request paths
\* A string is a sequence of one-character strings.
DotPdf == <<".", "p", "d", "f">>

DigitOf(c) ==
  CASE c = "0" -> 0 [] c = "1" -> 1 [] c = "2" -> 2 [] c = "3" -> 3
    [] c = "4" -> 4 [] c = "5" -> 5 [] c = "6" -> 6 [] c = "7" -> 7
    [] c = "8" -> 8 [] c = "9" -> 9 [] OTHER -> -1

RECURSIVE ParseDigits(_, _, _, _)
\* The digit loop of i32::from_str: checked multiply and add (subtract for a
\* negative number); an invalid digit or an overflow is an error (None).
ParseDigits(s, k, acc, neg) ==
  IF k > Len(s) THEN Some(acc)
  ELSE LET d == DigitOf(s[k])
       IN IF d < 0 THEN None
          ELSE IF neg
            THEN IF acc < (I32Min + d) \div 10 + (IF (I32Min + d) % 10 = 0 THEN 0 ELSE 1)
                   THEN None
                   ELSE ParseDigits(s, k + 1, acc * 10 - d, neg)
            ELSE IF acc > (I32Max - d) \div 10
                   THEN None
                   ELSE ParseDigits(s, k + 1, acc * 10 + d, neg)

\* str::parse::<i32>: an optional sign, then at least one decimal digit.
ParseI32(s) ==
  IF s = <<>> THEN None
  ELSE IF s = <<"+">> \/ s = <<"-">> THEN None
  ELSE IF s[1] = "+" THEN ParseDigits(s, 2, 0, FALSE)
  ELSE IF s[1] = "-" THEN ParseDigits(s, 2, 0, TRUE)
  ELSE ParseDigits(s, 1, 0, FALSE)

RECURSIVE SplitComma(_)
\* str::split(','): the parts between the commas, empty parts included.
SplitComma(s) ==
  IF ~Contains(s, ",") THEN <<s>>
  ELSE LET k == CHOOSE i \in DOMAIN s : s[i] = "," /\ \A j \in 1..(i - 1) : s[j] # ","
       IN <<SubSeq(s, 1, k - 1)>> \o SplitComma(SubSeq(s, k + 1, Len(s)))

\* str::strip_suffix(".pdf").unwrap_or(path).
StripPdf(path) ==
  IF Len(path) >= Len(DotPdf)
       /\ SubSeq(path, Len(path) - Len(DotPdf) + 1, Len(path)) = DotPdf
    THEN SubSeq(path, 1, Len(path) - Len(DotPdf))
    ELSE path

\* path_without_pdf[1..].split(',').map(parse).collect::<Result<Vec<i32>, _>>():
\* Some(list) when every part parses, None at the first part that does not.
ParseNumbers(path) ==
  LET parts == SplitComma(SubSeq(StripPdf(path), 2, Len(StripPdf(path))))
      vals == [k \in DOMAIN parts |-> ParseI32(parts[k])]
  IN IF \E k \in DOMAIN vals : vals[k] = None THEN None
     ELSE Some([k \in DOMAIN vals |-> vals[k][1]])

\* has_duplicate_elements with the set's size compared the wrong way round.
has_duplicate_elements_Never(v) == Cardinality(Range(v)) > Len(v)

\* Whether inserting the elements into a set one by one hits one already in.
has_duplicate_elements(v) ==
  \E i, j \in DOMAIN v : i < j /\ v[i] = v[j]

\* The request paths the model sends.
Tokens == {<<"1">>, <<"2">>, <<"-", "1">>, <<"x">>}

RECURSIVE JoinComma(_)
JoinComma(parts) ==
  IF Len(parts) = 1 THEN parts[1]
  ELSE parts[1] \o <<",">> \o JoinComma(Tail(parts))

Paths ==
  {<<"/">> \o JoinComma(parts) \o ext :
     parts \in UNION {[1..k -> Tokens] : k \in 1..MaxParts},
     ext \in {<<>>, DotPdf}}
    \cup {<<"*">>, <<"/">>, <<"/", "1", ",", "+", "1">>, <<"/", "1", ",">>,
          <<"/", "2", ".", "p", "d">>}

\* ------------------------------------------------------------------ responses
not_found ==
  [status |-> "NOT_FOUND", content_type |-> "text/plain",
   text |-> "Not found", bytes |-> <<>>]

internal_server_error ==
  [status |-> "INTERNAL_SERVER_ERROR", content_type |-> "text/plain",
   text |-> "Internal server error", bytes |-> <<>>]

\* Response::builder().header("Content-Type", "application/pdf").body(res)
pdf_response(res) ==
  [status |-> "OK", content_type |-> "application/pdf",
   text |-> "", bytes |-> res]

\* ---------------------------------------------------------------------- state
Handlers == 1..NumHandlers

VARIABLES
  source,      \* EXERCISES_DOCUMENT: the embedded document, never written
  poisoned,    \* the mutex's poison flag
  holder,      \* the handler holding the mutex guard, 0 for none
  running,     \* the task the single-threaded runtime is polling, 0 for none
  pc,          \* where each handler is
  path,        \* req.uri().path()
  exercise_numbers,
  tmp,         \* the Vec<u8> extract writes to
  result,      \* what extract returned
  resp,        \* the response the handler returned, None before
  kids,        \* the decoded tree's Kids arrays
  count,       \* the decoded tree's Count entries
  outlines,    \* whether the catalog has an Outlines entry
  current_exercise_number,
  not_seen,
  stack,       \* the frames of filter_page_tree_helper in a Pages node's loop
  visited,     \* history: the pages the predicate was called on, in order
  called,      \* history: the nodes the helper was called on, in order
  prior,       \* history: what the first finished extraction left, None before
  stream,      \* the Contents of the page read_exercise_number is given
  scanned      \* what read_exercise_number returned on it

hvars == <<path, exercise_numbers, tmp, result>>
evars == <<kids, count, outlines, current_exercise_number, not_seen, stack, visited,
          called>>
lvars == <<poisoned, holder>>
svars == <<stream, scanned>>
vars == <<source, poisoned, holder, running, pc, resp, hvars, evars, prior, svars>>

\* A local that does not exist (yet, or any more) holds these.
NoLocals(h) ==
  /\ exercise_numbers' = [exercise_numbers EXCEPT ![h] = <<>>]
  /\ tmp' = [tmp EXCEPT ![h] = <<>>]
  /\ result' = [result EXCEPT ![h] = "none"]
  /\ kids' = [kids EXCEPT ![h] = <<>>]
  /\ count' = [count EXCEPT ![h] = <<>>]
  /\ outlines' = [outlines EXCEPT ![h] = FALSE]
  /\ current_exercise_number' = [current_exercise_number EXCEPT ![h] = 0]
  /\ not_seen' = [not_seen EXCEPT ![h] = <<>>]
  /\ stack' = [stack EXCEPT ![h] = <<>>]
  /\ visited' = [visited EXCEPT ![h] = <<>>]
  /\ called' = [called EXCEPT ![h] = <<>>]

\* The process after main has bound its address: no connection has a request,
\* the mutex is free and sound; the logs are empty.
Booted ==
  /\ poisoned = FALSE
  /\ holder = 0
  /\ running = 0
  /\ pc = [h \in Handlers |-> "idle"]
  /\ path = [h \in Handlers |-> <<>>]
  /\ exercise_numbers = [h \in Handlers |-> <<>>]
  /\ tmp = [h \in Handlers |-> <<>>]
  /\ result = [h \in Handlers |-> "none"]
  /\ resp = [h \in Handlers |-> None]
  /\ kids = [h \in Handlers |-> <<>>]
  /\ count = [h \in Handlers |-> <<>>]
  /\ outlines = [h \in Handlers |-> FALSE]
  /\ current_exercise_number = [h \in Handlers |-> 0]
  /\ not_seen = [h \in Handlers |-> <<>>]
  /\ stack = [h \in Handlers |-> <<>>]
  /\ visited = [h \in Handlers |-> <<>>]
  /\ called = [h \in Handlers |-> <<>>]
  /\ prior = None

\* No page is being scanned.
NotScanning ==
  /\ stream = [contents |-> "None", bytes |-> <<>>]
  /\ scanned = [done |-> FALSE, val |-> None]

Init ==
  /\ source \in Docs
  /\ Booted
  /\ NotScanning

\* ------------------------------------------------------------ the gateway
\* MayPoll of a runtime that polls a task while another is inside extract
\* (a second worker thread, or an await under the guard).
MayPoll_MidExtract(h) ==
  IF running = 0 THEN TRUE
  ELSE running # h /\ pc[running] \in {"locked", "filter", "filtered", "extracted"}

\* The handler is an async block without an await: once the runtime
\* (flavor = "current_thread") polls it, it runs to its return or panic.
MayPoll(h) == running = 0

\* A request arrives on a connection and its service future is polled.
Receive(h) ==
  /\ MayPoll(h)
  /\ pc[h] = "idle"
  /\ \E p \in Paths : path' = [path EXCEPT ![h] = p]
  /\ running' = h
  /\ pc' = [pc EXCEPT ![h] = "received"]
  /\ UNCHANGED <<source, lvars, exercise_numbers, tmp, result, resp, evars>>
  /\ UNCHANGED <<prior, svars>>

\* The handler returns r: its locals are dropped, the guard with them.  The
\* request stays with the connection until the response is handed over.
ReturnResponse(h, r) ==
  /\ resp' = [resp EXCEPT ![h] = Some(r)]
  /\ UNCHANGED path
  /\ pc' = [pc EXCEPT ![h] = "responding"]
  /\ holder' = IF holder = h THEN 0 ELSE holder
  /\ NoLocals(h)

\* main.rs:225-240: the path must start with '/', every comma-separated
\* part must parse, no number may repeat; else 404.
Validate(h) ==
  /\ running = h
  /\ pc[h] = "received"
  /\ LET parsed == ParseNumbers(path[h])
     IN IF path[h] = <<>> \/ path[h][1] # "/"
          THEN ReturnResponse(h, not_found)
        ELSE IF parsed = None
          THEN ReturnResponse(h, not_found)
        ELSE IF has_duplicate_elements(parsed[1])
          THEN ReturnResponse(h, not_found)
        ELSE /\ exercise_numbers' = [exercise_numbers EXCEPT ![h] = parsed[1]]
             /\ pc' = [pc EXCEPT ![h] = "validated"]
             /\ UNCHANGED <<holder, resp, path, tmp, result, evars>>
  /\ UNCHANGED <<source, poisoned, running>>
  /\ UNCHANGED <<prior, svars>>

\* Lock taking the guard out of a poisoned mutex instead of failing.
Lock_IgnorePoison(h) ==
  /\ running = h
  /\ pc[h] = "validated"
  /\ holder = 0
  /\ holder' = h
  /\ pc' = [pc EXCEPT ![h] = "locked"]
  /\ tmp' = [tmp EXCEPT ![h] = <<>>]
  /\ UNCHANGED <<resp, path, exercise_numbers, result, evars>>
  /\ UNCHANGED <<source, poisoned, running>>
  /\ UNCHANGED <<prior, svars>>

\* main.rs:242-246: tmp = Vec::new(); lock() fails on a poisoned mutex and
\* blocks the thread while another guard is alive.
Lock(h) ==
  /\ running = h
  /\ pc[h] = "validated"
  /\ IF poisoned
       THEN ReturnResponse(h, internal_server_error)
       ELSE /\ holder = 0
            /\ holder' = h
            /\ pc' = [pc EXCEPT ![h] = "locked"]
            /\ tmp' = [tmp EXCEPT ![h] = <<>>]
            /\ UNCHANGED <<resp, path, exercise_numbers, result, evars>>
  /\ UNCHANGED <<source, poisoned, running>>
  /\ UNCHANGED <<prior, svars>>

\* ------------------------------------------------------------------- extract
\* main.rs:134-149: open the document, resolve the catalog and the page
\* tree root, set up the predicate's state.
Decode(h) ==
  /\ running = h
  /\ pc[h] = "locked"
  /\ IF source.form = "corrupt"
       THEN /\ result' = [result EXCEPT ![h] = "Mupdf"]
            /\ pc' = [pc EXCEPT ![h] = "extracted"]
            /\ UNCHANGED evars
     ELSE IF source.form = "nopages"
       THEN /\ result' = [result EXCEPT ![h] = "InvalidDoc"]
            /\ pc' = [pc EXCEPT ![h] = "extracted"]
            /\ UNCHANGED evars
     ELSE /\ kids' = [kids EXCEPT ![h] = source.kids]
          /\ count' = [count EXCEPT ![h] = source.count]
          /\ outlines' = [outlines EXCEPT ![h] = TRUE]
          /\ current_exercise_number' = [current_exercise_number EXCEPT ![h] = -1]
          /\ not_seen' = [not_seen EXCEPT ![h] = exercise_numbers[h]]
          /\ stack' = [stack EXCEPT ![h] = <<>>]
          /\ visited' = [visited EXCEPT ![h] = <<>>]
          /\ called' = [called EXCEPT ![h] = <<>>]
          /\ pc' = [pc EXCEPT ![h] = "filter"]
          /\ UNCHANGED result
  /\ UNCHANGED <<source, lvars, running, path, exercise_numbers, tmp, resp>>
  /\ UNCHANGED <<prior, svars>>

\* A panic unwinds the handler: its locals are dropped, the guard is dropped
\* while panicking, which poisons the mutex; the task ends without a response.
Panic(h) ==
  /\ pc' = [pc EXCEPT ![h] = "panicked"]
  /\ poisoned' = IF holder = h THEN TRUE ELSE poisoned
  /\ holder' = IF holder = h THEN 0 ELSE holder
  /\ running' = 0
  /\ path' = [path EXCEPT ![h] = <<>>]
  /\ NoLocals(h)
  /\ UNCHANGED <<source, resp>>

\* ------------------------------------------------------ the page-tree filter
\* FilterAction (main.rs:19-23).
KeepKid == [kind |-> "KeepKid", subtract_count |-> 0]
RemoveKid == [kind |-> "RemoveKid", subtract_count |-> 0]
Subtree(n) == [kind |-> "Subtree", subtract_count |-> n]

\* NextCurrent with the active label forgotten at an unlabeled page.
NextCurrent_NotSticky(cur, label) == IF IsSome(label) THEN label[1] ELSE -1

\* NextNotSeen striking an entry off at any label read, requested or not.
NextNotSeen_AnyLabel(ns, label) ==
  IF IsSome(label) /\ ns # <<>> THEN SwapRemove(ns, 1) ELSE ns

\* The closure of extract (main.rs:150-160) on a page whose content scans to
\* `label`: the active label, the unseen list, the verdict.
NextCurrent(cur, label) == IF IsSome(label) THEN label[1] ELSE cur

NextNotSeen(ns, label) ==
  IF IsSome(label) /\ Contains(ns, label[1])
    THEN SwapRemove(ns, CHOOSE k \in DOMAIN ns :
                          ns[k] = label[1] /\ \A j \in 1..(k - 1) : ns[j] # label[1])
    ELSE ns

KeepsPage(numbers, cur) == Contains(numbers, cur)

\* The frame of the innermost Pages node being looped over.
Top(h) == stack[h][Len(stack[h])]

\* A call of filter_page_tree_helper is due: on the root, or on the kid at
\* the loop index (main.rs:49-51).
CallDue(h) ==
  /\ pc[h] = "filter"
  /\ IF stack[h] = <<>> THEN TRUE ELSE Top(h).i < Top(h).kids_len

Callee(h) ==
  IF stack[h] = <<>> THEN source.root ELSE kids[h][Top(h).node][Top(h).i + 1]

\* FrameAfter with a subtree's removals not added to the running total.
FrameAfter_NoPropagate(f, ret) ==
  CASE ret.kind = "KeepKid" -> [f EXCEPT !.i = f.i + 1]
    [] ret.kind = "RemoveKid" ->
         [f EXCEPT !.kids_len = f.kids_len - 1,
                   !.subtract_count = f.subtract_count + 1]
    [] ret.kind = "Subtree" -> [f EXCEPT !.i = f.i + 1]

\* FrameAfter with the index left where it is after a kept page.
FrameAfter_NoAdvance(f, ret) ==
  CASE ret.kind = "KeepKid" -> f
    [] ret.kind = "RemoveKid" ->
         [f EXCEPT !.kids_len = f.kids_len - 1,
                   !.subtract_count = f.subtract_count + 1]
    [] ret.kind = "Subtree" ->
         [f EXCEPT !.subtract_count = f.subtract_count + ret.subtract_count,
                   !.i = f.i + 1]

\* FrameAfter with the index advanced after a removal as well.
FrameAfter_AdvanceOnRemove(f, ret) ==
  CASE ret.kind = "KeepKid" -> [f EXCEPT !.i = f.i + 1]
    [] ret.kind = "RemoveKid" ->
         [f EXCEPT !.kids_len = f.kids_len - 1,
                   !.subtract_count = f.subtract_count + 1,
                   !.i = f.i + 1]
    [] ret.kind = "Subtree" ->
         [f EXCEPT !.subtract_count = f.subtract_count + ret.subtract_count,
                   !.i = f.i + 1]

\* The match on the helper's return value in the caller's loop
\* (main.rs:51-61): the frame after it.
FrameAfter(f, ret) ==
  CASE ret.kind = "KeepKid" -> [f EXCEPT !.i = f.i + 1]
    [] ret.kind = "RemoveKid" ->
         [f EXCEPT !.kids_len = f.kids_len - 1,
                   !.subtract_count = f.subtract_count + 1]
    [] ret.kind = "Subtree" ->
         [f EXCEPT !.subtract_count = f.subtract_count + ret.subtract_count,
                   !.i = f.i + 1]

\* KidsAfter filling the gap with the last kid instead of shifting.
KidsAfter_SwapRemove(ks, f, ret) ==
  IF ret.kind = "RemoveKid"
    THEN [ks EXCEPT ![f.node] = SwapRemove(ks[f.node], f.i + 1)]
    ELSE ks

\* The Kids arrays after it: a removed kid is deleted at the loop index.
KidsAfter(ks, f, ret) ==
  IF ret.kind = "RemoveKid"
    THEN [ks EXCEPT ![f.node] = RemoveAt(ks[f.node], f.i + 1)]
    ELSE ks

\* A call returns ret to the frames st: to the loop of the innermost one, or,
\* from the root, to filter_page_tree (main.rs:79), which drops the value.
ReturnTo(h, st, ret) ==
  IF st = <<>>
    THEN /\ pc' = [pc EXCEPT ![h] = "filtered"]
         /\ stack' = [stack EXCEPT ![h] = <<>>]
         /\ UNCHANGED kids
    ELSE /\ stack' = [stack EXCEPT ![h] =
                        [st EXCEPT ![Len(st)] = FrameAfter(st[Len(st)], ret)]]
         /\ kids' = [kids EXCEPT ![h] = KidsAfter(kids[h], st[Len(st)], ret)]
         /\ UNCHANGED pc

\* HelperUntyped looping over the node's Kids as if it were a Pages node.
HelperUntyped_Descends(h) ==
  /\ running = h
  /\ CallDue(h)
  /\ source.ty[Callee(h)] = "NoType"
  /\ called' = [called EXCEPT ![h] = Append(@, Callee(h))]
  /\ stack' = [stack EXCEPT ![h] =
                 Append(@, [node |-> Callee(h), i |-> 0,
                            kids_len |-> Len(kids[h][Callee(h)]),
                            subtract_count |-> 0])]
  /\ UNCHANGED <<source, lvars, running, pc, resp, hvars, kids, count, outlines,
                 current_exercise_number, not_seen, visited>>
  /\ UNCHANGED <<prior, svars>>

\* main.rs:29-37: a node without a readable Type.
HelperUntyped(h) ==
  /\ running = h
  /\ CallDue(h)
  /\ source.ty[Callee(h)] = "NoType"
  /\ called' = [called EXCEPT ![h] = Append(@, Callee(h))]
  /\ ReturnTo(h, stack[h], Subtree(0))
  /\ UNCHANGED <<source, lvars, running, resp, hvars, count, outlines,
                 current_exercise_number, not_seen, visited>>
  /\ UNCHANGED <<prior, svars>>

\* main.rs:39-43: a Page; the predicate decides.
HelperPage(h) ==
  /\ running = h
  /\ CallDue(h)
  /\ source.ty[Callee(h)] = "Page"
  /\ LET label == source.label[Callee(h)]
         cur == NextCurrent(current_exercise_number[h], label)
         keep == KeepsPage(exercise_numbers[h], cur)
     IN /\ current_exercise_number' = [current_exercise_number EXCEPT ![h] = cur]
        /\ not_seen' = [not_seen EXCEPT ![h] = NextNotSeen(not_seen[h], label)]
        /\ visited' = [visited EXCEPT ![h] =
                         Append(@, [node |-> Callee(h), label |-> label, keep |-> keep])]
        /\ called' = [called EXCEPT ![h] = Append(@, Callee(h))]
        /\ ReturnTo(h, stack[h], IF keep THEN KeepKid ELSE RemoveKid)
  /\ UNCHANGED <<source, lvars, running, resp, hvars, count, outlines>>
  /\ UNCHANGED <<prior, svars>>

\* main.rs:44-48: a Pages node; its loop starts.
HelperPages(h) ==
  /\ running = h
  /\ CallDue(h)
  /\ source.ty[Callee(h)] = "Pages"
  /\ called' = [called EXCEPT ![h] = Append(@, Callee(h))]
  /\ stack' = [stack EXCEPT ![h] =
                 Append(@, [node |-> Callee(h), i |-> 0,
                            kids_len |-> Len(kids[h][Callee(h)]),
                            subtract_count |-> 0])]
  /\ UNCHANGED <<source, lvars, running, pc, resp, hvars, kids, count, outlines,
                 current_exercise_number, not_seen, visited>>
  /\ UNCHANGED <<prior, svars>>

\* main.rs:71: any other Type panics.
HelperInvalid(h) ==
  /\ running = h
  /\ CallDue(h)
  /\ source.ty[Callee(h)] \notin {"NoType", "Page", "Pages"}
  /\ Panic(h)
  /\ UNCHANGED <<prior, svars>>

\* The Count a Pages node is left with (main.rs:63-67).
CountAfter(c, subtract_count) ==
  IF subtract_count > 0 THEN c - subtract_count ELSE c

\* main.rs:49, 63-69: the loop of a Pages node ends; Count is lowered by what
\* was removed below, and the total goes to the caller.
HelperLoopExit(h) ==
  /\ running = h
  /\ pc[h] = "filter"
  /\ stack[h] # <<>>
  /\ Top(h).i >= Top(h).kids_len
  /\ count' = [count EXCEPT ![h][Top(h).node] = CountAfter(@, Top(h).subtract_count)]
  /\ ReturnTo(h, SubSeq(stack[h], 1, Len(stack[h]) - 1),
              Subtree(Top(h).subtract_count))
  /\ UNCHANGED <<source, lvars, running, resp, hvars, outlines,
                 current_exercise_number, not_seen, visited, called>>
  /\ UNCHANGED <<prior, svars>>

\* What doc.write_to(w) appends to w: the document as it is now.
Serialized(ks, c, o) == <<[kids |-> ks, count |-> c, outlines |-> o]>>

\* What a failing doc.write_to(w) may have appended: nothing, or a document
\* cut short.
Truncated(o) == {<<>>, <<[kids |-> <<>>, count |-> <<>>, outlines |-> o]>>}

\* How the two library calls of the success path end: dict_delete and
\* write_to return a Result, and the library may fail either.
LibraryOutcomes == {"ok", "dict_delete", "write_to"}

\* FinishExtract writing the document before the Outlines are removed.
FinishExtract_WriteFirst(h) ==
  /\ running = h
  /\ pc[h] = "filtered"
  /\ IF not_seen[h] # <<>>
       THEN /\ result' = [result EXCEPT ![h] = "MissingExercise"]
            /\ UNCHANGED <<outlines, tmp>>
       ELSE /\ tmp' = [tmp EXCEPT ![h] =
                         @ \o Serialized(kids[h], count[h], outlines[h])]
            /\ outlines' = [outlines EXCEPT ![h] = FALSE]
            /\ result' = [result EXCEPT ![h] = "Ok"]
  /\ pc' = [pc EXCEPT ![h] = "extracted"]
  /\ UNCHANGED <<source, lvars, running, path, exercise_numbers, resp, kids,
                 count, current_exercise_number, not_seen, stack, visited, called>>
  /\ UNCHANGED svars

\* FinishExtract leaving the filtered tree behind as the extractor's document.
FinishExtract_WritesBack(h) ==
  /\ running = h
  /\ pc[h] = "filtered"
  /\ IF not_seen[h] # <<>>
       THEN /\ result' = [result EXCEPT ![h] = "MissingExercise"]
            /\ UNCHANGED <<outlines, tmp>>
       ELSE /\ outlines' = [outlines EXCEPT ![h] = FALSE]
            /\ tmp' = [tmp EXCEPT ![h] =
                         @ \o Serialized(kids[h], count[h], outlines'[h])]
            /\ result' = [result EXCEPT ![h] = "Ok"]
  /\ pc' = [pc EXCEPT ![h] = "extracted"]
  /\ source' = [source EXCEPT !.kids = kids[h], !.count = count[h]]
  /\ UNCHANGED <<lvars, running, path, exercise_numbers, resp, kids,
                 count, current_exercise_number, not_seen, stack, visited, called>>
  /\ UNCHANGED svars

\* main.rs:162-169: every requested number must have been seen; then the
\* catalog's Outlines go and the document is written, each step ending the
\* call with an error if it fails.
FinishExtract(h) ==
  /\ running = h
  /\ pc[h] = "filtered"
  /\ IF not_seen[h] # <<>>
       THEN /\ result' = [result EXCEPT ![h] = "MissingExercise"]
            /\ UNCHANGED <<outlines, tmp>>
       ELSE \E lib \in LibraryOutcomes :
              IF lib = "dict_delete"
                THEN /\ result' = [result EXCEPT ![h] = "Mupdf"]
                     /\ UNCHANGED <<outlines, tmp>>
              ELSE IF lib = "write_to"
                THEN /\ outlines' = [outlines EXCEPT ![h] = FALSE]
                     /\ \E written \in Truncated(outlines'[h]) :
                          tmp' = [tmp EXCEPT ![h] = @ \o written]
                     /\ result' = [result EXCEPT ![h] = "Mupdf"]
              ELSE /\ outlines' = [outlines EXCEPT ![h] = FALSE]
                   /\ tmp' = [tmp EXCEPT ![h] =
                                @ \o Serialized(kids[h], count[h], outlines'[h])]
                   /\ result' = [result EXCEPT ![h] = "Ok"]
  /\ pc' = [pc EXCEPT ![h] = "extracted"]
  /\ UNCHANGED <<source, lvars, running, path, exercise_numbers, resp, kids,
                 count, current_exercise_number, not_seen, stack, visited, called>>
  /\ UNCHANGED svars

Finish(h) == FinishExtract(h) /\ UNCHANGED prior

\* What an extraction that got through its traversal left behind.
Left(h) ==
  [exercise_numbers |-> exercise_numbers[h],
   kids |-> kids[h],
   count |-> count[h],
   current_exercise_number |-> current_exercise_number[h],
   not_seen |-> not_seen[h]]

\* Finish, with the log taking one extraction that got this far, any one.
FinishLogged(h) ==
  /\ FinishExtract(h)
  /\ prior' \in IF prior = None THEN {None, Some(Left(h))} ELSE {prior}

\* main.rs:247-256: the handler's match on extract's result.
ResponseFor(res, bytes) ==
  IF res = "MissingExercise" THEN not_found
  ELSE IF res # "Ok" THEN internal_server_error
  ELSE pdf_response(bytes)

Return(h) ==
  /\ running = h
  /\ pc[h] = "extracted"
  /\ ReturnResponse(h, ResponseFor(result[h], tmp[h]))
  /\ UNCHANGED <<source, poisoned, running>>
  /\ UNCHANGED <<prior, svars>>

\* The response is handed to the connection, which waits for its next
\* request.
Send(h) ==
  /\ running = h
  /\ pc[h] = "responding"
  /\ pc' = [pc EXCEPT ![h] = "idle"]
  /\ running' = 0
  /\ resp' = [resp EXCEPT ![h] = None]
  /\ path' = [path EXCEPT ![h] = <<>>]
  /\ UNCHANGED <<source, lvars, exercise_numbers, tmp, result, evars>>
  /\ UNCHANGED <<prior, svars>>

\* ----------------------------------------------------------- the marker scan
\* main.rs:111: the kerned and the plain form of the marker.
KernedMarker ==
  <<"(", "E", "X", "E", "R", ")", "3", "1", "(", "C", "I", "C", "E", ")">>
PlainMarker == <<"(", "E", "x", "e", "r", "c", "i", "c", "e", ")">>

\* markers without the plain form.
markers_KernedOnly == <<KernedMarker>>

markers == <<KernedMarker, PlainMarker>>

\* A byte that no UTF-8 text contains.
InvalidByte == "0xFF"

\* str::from_utf8 succeeds.
IsUtf8(bytes) == \A i \in DOMAIN bytes : bytes[i] # InvalidByte

\* str::find from position `from` on: the first position where pat starts,
\* 0 for None.
Find(s, pat, from) ==
  LET at == {k \in from..(Len(s) - Len(pat) + 1) :
               SubSeq(s, k, k + Len(pat) - 1) = pat}
  IN IF at = {} THEN 0 ELSE CHOOSE k \in at : \A j \in at : k <= j

\* One round of the loop of main.rs:112-125: the first occurrence of the
\* marker, the next '(' after it, the next ')' after that, and what lies
\* between them parsed as an i32.
ScanMarker(s, marker) ==
  LET i == Find(s, marker, 1)
      l_paren == IF i = 0 THEN 0 ELSE Find(s, <<"(">>, i + Len(marker))
      r_paren == IF l_paren = 0 THEN 0 ELSE Find(s, <<")">>, l_paren + 1)
  IN IF r_paren = 0 THEN None
     ELSE ParseI32(SubSeq(s, l_paren + 1, r_paren - 1))

RECURSIVE ScanFrom(_, _)
\* The loop over the markers from the k-th on: the first round to parse a
\* number returns it.
ScanFrom(s, k) ==
  IF k > Len(markers) THEN None
  ELSE IF IsSome(ScanMarker(s, markers[k])) THEN ScanMarker(s, markers[k])
  ELSE ScanFrom(s, k + 1)

\* read_exercise_number scanning the bytes without decoding them as text.
read_exercise_number_Lossy(page) ==
  IF page.contents # "Ok" THEN None
  ELSE ScanFrom(page.bytes, 1)

\* main.rs:98-127, on a page whose Contents entry is missing ("None"),
\* fails to be read ("Err") or holds the given bytes ("Ok").
read_exercise_number(page) ==
  IF page.contents # "Ok" THEN None
  ELSE IF ~IsUtf8(page.bytes) THEN None
  ELSE ScanFrom(page.bytes, 1)

\* The content streams the scan is run on.
Pieces ==
  {KernedMarker, PlainMarker,
   <<"(", "5", ")">>, <<"(", "-", "7", ")">>, <<"(", "x", ")">>,
   <<"(", "2", "1", "4", "7", "4", "8", "3", "6", "4", "7", ")">>,
   <<"(", "2", "1", "4", "7", "4", "8", "3", "6", "4", "8", ")">>,
   <<"(">>, <<" ">>, <<InvalidByte>>}

RECURSIVE Concat(_)
Concat(ps) == IF ps = <<>> THEN <<>> ELSE Head(ps) \o Concat(Tail(ps))

Streams ==
  {[contents |-> c, bytes |-> <<>>] : c \in {"None", "Err"}}
    \cup {[contents |-> "Ok", bytes |-> Concat(ps)] :
            ps \in UNION {[1..k -> Pieces] : k \in 0..MaxPieces}}

\* The scan of one page, on its own.
InitScan ==
  /\ source = BrokenDoc("nopages")
  /\ Booted
  /\ stream \in Streams
  /\ scanned = [done |-> FALSE, val |-> None]

ReadExerciseNumber ==
  /\ ~scanned.done
  /\ scanned' = [done |-> TRUE, val |-> read_exercise_number(stream)]
  /\ UNCHANGED <<source, poisoned, holder, running, pc, resp, hvars, evars, prior,
                 stream>>

NextScan == ReadExerciseNumber

SpecScan == InitScan /\ [][NextScan]_vars

Next ==
  \E h \in Handlers :
    \/ Receive(h)
    \/ Validate(h)
    \/ Lock(h)
    \/ Decode(h)
    \/ HelperUntyped(h)
    \/ HelperPage(h)
    \/ HelperPages(h)
    \/ HelperInvalid(h)
    \/ HelperLoopExit(h)
    \/ Finish(h)
    \/ Return(h)
    \/ Send(h)

Spec == Init /\ [][Next]_vars

\* The same program on the smaller documents, keeping the log.
InitLogged ==
  /\ source \in {d \in Docs : Len(d.ty) <= MaxLogNodes}
  /\ Booted
  /\ NotScanning

NextLogged ==
  \E h \in Handlers :
    \/ Receive(h)
    \/ Validate(h)
    \/ Lock(h)
    \/ Decode(h)
    \/ HelperUntyped(h)
    \/ HelperPage(h)
    \/ HelperPages(h)
    \/ HelperInvalid(h)
    \/ HelperLoopExit(h)
    \/ FinishLogged(h)
    \/ Return(h)
    \/ Send(h)

SpecLogged == InitLogged /\ [][NextLogged]_vars

\* A step of filter_page_tree: the handler's thread is inside a synchronous
\* call and keeps executing it.
FilterStep(h) ==
  \/ HelperUntyped(h)
  \/ HelperPage(h)
  \/ HelperPages(h)
  \/ HelperInvalid(h)
  \/ HelperLoopExit(h)

SpecRun == Spec /\ \A h \in Handlers : WF_vars(FilterStep(h))

\* ------------------------------------------------ what the claims speak about
Nodes == DOMAIN source.ty

\* The node whose Kids array of the source holds n, 0 for the root.
ParentOf(n) ==
  IF \E m \in Nodes : n \in Range(source.kids[m])
    THEN CHOOSE m \in Nodes : n \in Range(source.kids[m])
    ELSE 0

RECURSIVE InPageTree(_)
\* The nodes a page-tree walk can reach: the root, and the kids of Pages nodes.
InPageTree(n) ==
  \/ n = source.root
  \/ /\ ParentOf(n) # 0
     /\ source.ty[ParentOf(n)] = "Pages"
     /\ InPageTree(ParentOf(n))

\* The leaves of the page tree; their numbers are in document order.
Leaves == {n \in Nodes : source.ty[n] = "Page" /\ InPageTree(n)}

MaxOf(S) == CHOOSE x \in S : \A y \in S : y <= x

\* The labeled leaves before leaf n in document order.
LabeledBefore(n) == {m \in Leaves : m < n /\ IsSome(source.label[m])}

\* Sticky assignment: the label read from the leaf itself, or else from the
\* nearest preceding labeled leaf; None before any label.
ActiveLabel(n) ==
  IF IsSome(source.label[n]) THEN source.label[n]
  ELSE IF LabeledBefore(n) = {} THEN None
  ELSE source.label[MaxOf(LabeledBefore(n))]

Requested(h) == Range(exercise_numbers[h])

RECURSIVE Attached(_, _)
\* Node n is still reachable from the root through the Kids arrays of h's tree.
Attached(h, n) ==
  \/ n = source.root
  \/ \E p \in Nodes : n \in Range(kids[h][p]) /\ Attached(h, p)

\* The filter has run to completion on h's tree.
FilterDone(h) ==
  \/ pc[h] = "filtered"
  \/ pc[h] = "extracted" /\ result[h] \in {"Ok", "MissingExercise"}

\* ---------------------------------------------------------------------- C1
\* C1: once filter_page_tree has run to completion, the Count of every Pages
\* node equals the number of Page descendants still under it.
C1_CountAfterFilter ==
  \A h \in Handlers :
    FilterDone(h) =>
      \A n \in Nodes :
        source.ty[n] = "Pages" =>
          count[h][n] = PagesUnder(source.ty, kids[h], n)

\* A finished filter that removed a page two levels down and kept another:
\* the loss went through an inner Pages node up to the root.
C1_Witness ==
  \E h \in Handlers :
    /\ FilterDone(h)
    /\ \E n \in Nodes \ {source.root} :
         /\ source.ty[n] = "Pages"
         /\ InPageTree(n)
         /\ count[h][n] < source.count[n]
         /\ count[h][source.root] < source.count[source.root]
         /\ count[h][source.root] > 0

\* ---------------------------------------------------------------------- C2
\* C2: for a duplicate-free requested list whose labels are all read from
\* some leaf of the document, extract succeeds (the library not failing) and
\* the leaves left in the tree are exactly those whose active label is in
\* the list.
C2_Completeness ==
  \A h \in Handlers :
    (/\ pc[h] = "extracted"
     /\ source.form = "tree"
     /\ result[h] # "Mupdf"
     /\ ~has_duplicate_elements(exercise_numbers[h])
     /\ \A x \in Requested(h) : \E n \in Leaves : source.label[n] = Some(x))
      => /\ result[h] = "Ok"
         /\ {n \in Leaves : Attached(h, n)}
              = {n \in Leaves : /\ IsSome(ActiveLabel(n))
                                /\ ActiveLabel(n)[1] \in Requested(h)}

\* ---------------------------------------------------------------------- C3
\* C3: a visited leaf without a label of its own is kept exactly when the
\* label of the nearest preceding labeled leaf in document order is
\* requested, whichever Pages node that leaf hangs under.
C3_StickyLabel ==
  \A h \in Handlers :
    \A k \in DOMAIN visited[h] :
      LET n == visited[h][k].node
      IN (source.label[n] = None /\ LabeledBefore(n) # {}) =>
           /\ visited[h][k].keep = (ActiveLabel(n)[1] \in Requested(h))
           /\ Attached(h, n) = (ActiveLabel(n)[1] \in Requested(h))

\* An unlabeled leaf kept on the label of a leaf under another Pages node.
C3_Witness ==
  \E h \in Handlers :
    \E k \in DOMAIN visited[h] :
      LET n == visited[h][k].node
      IN /\ source.label[n] = None
         /\ LabeledBefore(n) # {}
         /\ ParentOf(MaxOf(LabeledBefore(n))) # ParentOf(n)
         /\ ActiveLabel(n)[1] # -1
         /\ visited[h][k].keep
         /\ Attached(h, n)

\* ---------------------------------------------------------------------- C4
\* C4: a leaf visited before any leaf has yielded a label matches nothing:
\* the predicate returns false for it and it is removed, whatever integers
\* are requested.
C4_NoLabelMatchesNothing ==
  \A h \in Handlers :
    \A k \in DOMAIN visited[h] :
      (\A j \in 1..k : visited[h][j].label = None) =>
        /\ ~visited[h][k].keep
        /\ \A p \in Nodes : visited[h][k].node \notin Range(kids[h][p])


\* ---------------------------------------------------------------------- C5
\* Some requested label was read from no leaf of the traversal.
MissingRequested(h) ==
  \E x \in Requested(h) :
    \A k \in DOMAIN visited[h] : visited[h][k].label # Some(x)

\* C5: when the traversal has ended and a requested label was read from no
\* leaf, extract returns MissingExercise with nothing written to the writer,
\* and the handler answers not-found with no document bytes.
C5_MissingExercise ==
  [][\A h \in Handlers :
       /\ (pc[h] = "filtered" /\ MissingRequested(h) /\ pc'[h] # pc[h]) =>
            /\ pc'[h] = "extracted"
            /\ result'[h] = "MissingExercise"
            /\ tmp'[h] = <<>>
       /\ (pc[h] = "extracted" /\ FilterDone(h) /\ MissingRequested(h)
             /\ pc'[h] # pc[h]) =>
            /\ tmp[h] = <<>>
            /\ pc'[h] = "responding"
            /\ resp'[h] = Some(not_found)
            /\ resp'[h][1].bytes = <<>>]_vars

\* extract has returned MissingExercise on a tree it had already filtered.
C5_Witness ==
  \E h \in Handlers :
    /\ pc[h] = "extracted"
    /\ result[h] = "MissingExercise"
    /\ MissingRequested(h)
    /\ tmp[h] = <<>>
    /\ kids[h] # source.kids

\* ---------------------------------------------------------------------- C6
DecimalDigits == {"0", "1", "2", "3", "4", "5", "6", "7", "8", "9"}

Unsigned(seg) ==
  IF seg # <<>> /\ seg[1] \in {"+", "-"} THEN Tail(seg) ELSE seg

\* An optional sign followed by at least one decimal digit.
SignedInt(seg) ==
  /\ Unsigned(seg) # <<>>
  /\ \A i \in DOMAIN Unsigned(seg) : Unsigned(seg)[i] \in DecimalDigits

RECURSIVE Magnitude(_)
Magnitude(digits) ==
  IF digits = <<>> THEN 0
  ELSE Magnitude(SubSeq(digits, 1, Len(digits) - 1)) * 10
         + DigitOf(digits[Len(digits)])

IntValue(seg) ==
  IF seg[1] = "-" THEN 0 - Magnitude(Unsigned(seg)) ELSE Magnitude(Unsigned(seg))

\* The p without its leading slash and without a trailing ".pdf".
RequestBody(p) ==
  LET n == Len(p)
      cut == IF n >= 4 /\ p[n - 3] = "." /\ p[n - 2] = "p"
                  /\ p[n - 1] = "d" /\ p[n] = "f"
               THEN n - 4 ELSE n
  IN SubSeq(p, 2, cut)

\* The maximal comma-free stretches <<first, last>> of b (last = first - 1
\* for an empty one).
Segments(b) ==
  {sg \in (1..(Len(b) + 1)) \X (0..Len(b)) :
     /\ sg[2] >= sg[1] - 1
     /\ sg[1] = 1 \/ b[sg[1] - 1] = ","
     /\ sg[2] = Len(b) \/ b[sg[2] + 1] = ","
     /\ \A i \in sg[1]..sg[2] : b[i] # ","}

\* A comma-separated list of signed integers, no integer twice.
WellFormedRequest(p) ==
  /\ p # <<>>
  /\ p[1] = "/"
  /\ LET b == RequestBody(p)
     IN /\ \A sg \in Segments(b) : SignedInt(SubSeq(b, sg[1], sg[2]))
        /\ \A sg, tg \in Segments(b) :
             sg # tg => IntValue(SubSeq(b, sg[1], sg[2]))
                          # IntValue(SubSeq(b, tg[1], tg[2]))

\* C6: a request whose path is no comma-separated list of signed integers,
\* or repeats a label, is answered not-found, and its handler never holds
\* the lock, never runs extract and never decodes the document.
C6_RejectsMalformed ==
  \A h \in Handlers :
    (path[h] # <<>> /\ ~WellFormedRequest(path[h])) =>
      /\ pc[h] \in {"received", "responding"}
      /\ pc[h] = "responding" => resp[h] = Some(not_found)
      /\ holder # h
      /\ kids[h] = <<>>
      /\ result[h] = "none"
      /\ visited[h] = <<>>

\* A request of integers with a repeated label, answered not-found.
C6_Witness ==
  \E h \in Handlers :
    /\ pc[h] = "responding"
    /\ resp[h] = Some(not_found)
    /\ path[h] # <<>> /\ path[h][1] = "/"
    /\ \A sg \in Segments(RequestBody(path[h])) :
         SignedInt(SubSeq(RequestBody(path[h]), sg[1], sg[2]))
    /\ ~WellFormedRequest(path[h])

\* ---------------------------------------------------------------------- C7
\* From the lock being taken to extract having returned.
ExtractPcs == {"locked", "filter", "filtered", "extracted"}

\* C7: at most one extraction is in progress; the handler in it holds the
\* lock and is the task being run, so it is never suspended inside.
C7_OneExtraction ==
  /\ Cardinality({h \in Handlers : pc[h] \in ExtractPcs}) <= 1
  /\ \A h \in Handlers :
       pc[h] \in ExtractPcs => holder = h /\ running = h

\* A handler in the middle of the filter while another connection is up.
C7_Witness ==
  \E h, g \in Handlers :
    /\ h # g
    /\ pc[h] = "filter"
    /\ stack[h] # <<>>
    /\ holder = h
    /\ pc[g] = "idle"

\* ---------------------------------------------------------------------- C8
\* C8: a panic of an extraction poisons the lock for good; from then on a
\* validated request fails to lock and is answered internal-error, and no
\* handler runs extract or returns a document.
C8_PoisonIsForever ==
  [][/\ poisoned => poisoned'
     /\ \A h \in Handlers :
          /\ (pc[h] \in ExtractPcs /\ pc'[h] = "panicked") => poisoned'
          /\ poisoned' =>
               /\ pc'[h] \notin ExtractPcs
               /\ holder' # h
               /\ resp'[h] # None => resp'[h][1].status # "OK"
          /\ (poisoned /\ pc[h] = "validated" /\ pc'[h] # pc[h]) =>
               /\ pc'[h] = "responding"
               /\ resp'[h] = Some(internal_server_error)]_vars

\* After a panic, a well-formed request was answered internal-error.
C8_Witness ==
  \E h, g \in Handlers :
    /\ pc[g] = "panicked"
    /\ poisoned
    /\ pc[h] = "responding"
    /\ WellFormedRequest(path[h])
    /\ resp[h] = Some(internal_server_error)

\* ---------------------------------------------------------------------- C9
\* The traversal is about to call the helper on a node whose Type is
\* neither Page nor Pages.
AtInvalidNode(h) ==
  /\ CallDue(h)
  /\ source.ty[Callee(h)] \notin {"NoType", "Page", "Pages"}

\* C9: when the traversal reaches a node whose Type is neither Page nor
\* Pages, the extraction ends at once with an error that the request gets
\* as an internal-error response, and no bytes are returned.
C9_StructuralError ==
  [][\A h \in Handlers :
       (AtInvalidNode(h) /\ pc'[h] # pc[h]) =>
         \/ /\ pc'[h] = "extracted"
            /\ result'[h] \notin {"none", "Ok", "MissingExercise"}
            /\ tmp'[h] = <<>>
         \/ /\ pc'[h] = "responding"
            /\ resp'[h] = Some(internal_server_error)]_vars

\* ---------------------------------------------------------------------- C10
\* The outcome the gateway owes for a result of extract.
OutcomeFor(res, bytes) ==
  CASE res = "MissingExercise" -> not_found
    [] res = "Ok" ->
         [status |-> "OK", content_type |-> "application/pdf",
          text |-> "", bytes |-> bytes]
    [] OTHER -> internal_server_error

\* C10: a request that passed validation and took the lock gets exactly one
\* outcome, the one extract's result determines: its handler leaves the
\* extraction only by returning that response.
C10_OutcomeFromResult ==
  [][\A h \in Handlers :
       (pc[h] \in ExtractPcs /\ pc'[h] \notin ExtractPcs) =>
         /\ pc[h] = "extracted"
         /\ pc'[h] = "responding"
         /\ resp'[h] = Some(OutcomeFor(result[h], tmp[h]))]_vars

\* The mapping itself, for every extraction that returns.
ReturnedOutcome ==
  [][\A h \in Handlers :
       (pc[h] = "extracted" /\ pc'[h] # pc[h]) =>
         /\ pc'[h] = "responding"
         /\ resp'[h] = Some(OutcomeFor(result[h], tmp[h]))]_vars


\* ---------------------------------------------------------------------- C11
\* C11: while the filter runs, after every mutation of the tree (a kid
\* deleted from a Kids array, a Count written), the Count of every Pages
\* node equals the number of Page descendants now under it.
C11_CountAfterEveryMutation ==
  \A h \in Handlers :
    pc[h] \in {"filter", "filtered"} =>
      \A n \in Nodes :
        source.ty[n] = "Pages" =>
          count[h][n] = PagesUnder(source.ty, kids[h], n)

\* ---------------------------------------------------------------------- C15
\* The calls of the helper on the kids of node p, in the order they were made.
ChildCalls(h, p) == SelectSeq(called[h], LAMBDA n : ParentOf(n) = p)

IsPrefix(s, t) == Len(s) <= Len(t) /\ s = SubSeq(t, 1, Len(s))

\* The loop over the Kids of node p is running.
LoopOpen(h, p) == \E k \in DOMAIN stack[h] : stack[h][k].node = p

\* C15: the loop of a Pages node calls the helper on the kids the node had
\* at the start, once each, left to right, whichever of them are removed:
\* the calls so far are a prefix of the original Kids, the kid at the loop
\* index is the next original one, and a finished loop has called them all.
C15_VisitOnceInOrder ==
  \A h \in Handlers :
    \A p \in Nodes :
      (source.ty[p] = "Pages" /\ Contains(called[h], p)) =>
        LET cs == ChildCalls(h, p)
        IN /\ IsPrefix(cs, source.kids[p])
           /\ ~LoopOpen(h, p) => cs = source.kids[p]
           /\ \A k \in DOMAIN stack[h] :
                (stack[h][k].node = p /\ k = Len(stack[h])
                   /\ stack[h][k].i < stack[h][k].kids_len) =>
                  /\ Len(cs) < Len(source.kids[p])
                  /\ kids[h][p][stack[h][k].i + 1] = source.kids[p][Len(cs) + 1]

\* A finished loop that removed its first kid and kept the one shifted into
\* its place.
C15_Witness ==
  \E h \in Handlers :
    \E p \in Nodes :
      /\ source.ty[p] = "Pages"
      /\ Contains(called[h], p)
      /\ ~LoopOpen(h, p)
      /\ Len(source.kids[p]) >= 3
      /\ source.kids[p][1] \notin Range(kids[h][p])
      /\ source.kids[p][2] \in Range(kids[h][p])
      /\ source.kids[p][3] \notin Range(kids[h][p])

\* ---------------------------------------------------------------------- C16
\* C16: the call of the helper on a node without a readable Type changes
\* nothing: the tree, the active label, the unseen list and the predicate's
\* log stay as they are, the caller's loop moves on with its running total
\* unchanged (the root's caller is done), and no kid of such a node is ever
\* called.
C16_UntypedIsInert ==
  [][\A h \in Handlers :
       (/\ CallDue(h)
        /\ source.ty[Callee(h)] = "NoType"
        /\ called'[h] # called[h]) =>
         /\ kids'[h] = kids[h]
         /\ count'[h] = count[h]
         /\ current_exercise_number'[h] = current_exercise_number[h]
         /\ not_seen'[h] = not_seen[h]
         /\ visited'[h] = visited[h]
         /\ IF stack[h] = <<>>
              THEN pc'[h] = "filtered" /\ stack'[h] = <<>>
              ELSE /\ pc'[h] = "filter"
                   /\ stack'[h] = [stack[h] EXCEPT ![Len(stack[h])].i = @ + 1]
         /\ \A k \in DOMAIN called'[h] :
              ParentOf(called'[h][k]) # 0 =>
                source.ty[ParentOf(called'[h][k])] # "NoType"]_vars

\* A finished filter that passed an untyped node with kids of its own and
\* removed a page elsewhere.
C16_Witness ==
  \E h \in Handlers :
    /\ FilterDone(h)
    /\ kids[h] # source.kids
    /\ \E n \in Range(called[h]) :
         /\ source.ty[n] = "NoType"
         /\ source.kids[n] # <<>>
         /\ kids[h][n] = source.kids[n]

\* ---------------------------------------------------------------------- C19
\* The position of x in s.
PosIn(s, x) == CHOOSE k \in DOMAIN s : s[k] = x

\* C19: the filter takes only Page nodes out of a Kids array: every kid
\* missing from an array is a Page, the kids left are in their original
\* relative order, and once the filter is done every Pages node of the page
\* tree is still attached, with Count 0 if its Kids array is empty.
C19_OnlyPagesDetached ==
  \A h \in Handlers :
    kids[h] # <<>> =>
      \A p \in Nodes :
        /\ Range(kids[h][p]) \subseteq Range(source.kids[p])
        /\ \A c \in Range(source.kids[p]) \ Range(kids[h][p]) :
             source.ty[c] = "Page"
        /\ \A i, j \in DOMAIN kids[h][p] :
             i < j => PosIn(source.kids[p], kids[h][p][i])
                        < PosIn(source.kids[p], kids[h][p][j])
        /\ (FilterDone(h) /\ source.ty[p] = "Pages" /\ InPageTree(p)) =>
             /\ Attached(h, p)
             /\ kids[h][p] = <<>> => count[h][p] = 0

\* A finished filter that removed every leaf of an inner Pages node, which
\* is still a kid of the root.
C19_Witness ==
  \E h \in Handlers :
    /\ FilterDone(h)
    /\ \E p \in Nodes \ {source.root} :
         /\ source.ty[p] = "Pages"
         /\ InPageTree(p)
         /\ source.kids[p] # <<>>
         /\ kids[h][p] = <<>>
         /\ count[h][p] = 0
         /\ Attached(h, p)


\* ---------------------------------------------------------------------- C17
\* No document among the bytes b carries an Outlines entry.
NoOutlines(b) == \A k \in DOMAIN b : ~b[k].outlines

\* C17: extract writes to the writer only after the traversal has ended, the
\* unseen list was found empty and the Outlines entry was removed: whatever
\* is written, and whatever document a response carries, has no Outlines
\* entry, and an extraction that ends with the entry still in place has
\* written nothing.
C17_OutlineRemovedBeforeWrite ==
  [][\A h \in Handlers :
       /\ (tmp'[h] # tmp[h] /\ tmp'[h] # <<>>) =>
            /\ pc[h] = "filtered"
            /\ stack[h] = <<>>
            /\ not_seen[h] = <<>>
            /\ ~outlines'[h]
            /\ NoOutlines(tmp'[h])
       /\ (pc[h] = "filtered" /\ pc'[h] = "extracted" /\ outlines'[h]) =>
            tmp'[h] = <<>>
       /\ (pc'[h] = "extracted" /\ result'[h] = "Ok") =>
            tmp'[h] = Serialized(kids[h], count[h], FALSE)
       /\ (resp'[h] # None /\ resp'[h][1].status = "OK") =>
            /\ resp'[h][1].bytes # <<>>
            /\ NoOutlines(resp'[h][1].bytes)]_vars

\* A document written after pages were removed, without its Outlines entry.
C17_Witness ==
  \E h \in Handlers :
    /\ pc[h] = "extracted"
    /\ result[h] = "Ok"
    /\ kids[h] # source.kids
    /\ ~outlines[h]
    /\ tmp[h] = Serialized(kids[h], count[h], FALSE)


\* ---------------------------------------------------------------------- C18
\* How far the loop of frame f is from its end.
Distance(f) == f.kids_len - f.i

\* C18: filter_page_tree terminates: every step of the traversal either is
\* the whole of it (the root is no Pages node), or ends
\* an iteration of the innermost loop, bringing its index and its remaining
\* length one closer (the index up by one or the length down by one), or
\* starts the loop of a kid of the innermost node (of the root at the start),
\* or ends the innermost loop, which is an iteration of the loop around it;
\* the loops around the innermost one stand still; and a traversal that has
\* begun comes to its end.
C18_FilterTerminates ==
  /\ [][\A h \in Handlers :
          (/\ pc[h] = "filter"
           /\ called'[h] # called[h] \/ stack'[h] # stack[h]
           /\ pc'[h] # "panicked") =>
            LET st == stack[h]
                su == stack'[h]
            IN \/ /\ st = <<>>
                  /\ su = <<>>
                  /\ pc'[h] = "filtered"
               \/ /\ st # <<>>
                  /\ Len(su) = Len(st)
                  /\ \A k \in 1..(Len(st) - 1) : su[k] = st[k]
                  /\ su[Len(su)].node = st[Len(st)].node
                  /\ Distance(su[Len(su)]) = Distance(st[Len(st)]) - 1
                  /\ \/ /\ su[Len(su)].i = st[Len(st)].i + 1
                        /\ su[Len(su)].kids_len = st[Len(st)].kids_len
                     \/ /\ su[Len(su)].i = st[Len(st)].i
                        /\ su[Len(su)].kids_len = st[Len(st)].kids_len - 1
               \/ /\ Len(su) = Len(st) + 1
                  /\ \A k \in 1..Len(st) : su[k] = st[k]
                  /\ IF st = <<>>
                       THEN su[1].node = source.root
                       ELSE su[Len(su)].node \in Range(kids[h][st[Len(st)].node])
                  /\ su[Len(su)].i = 0
                  /\ su[Len(su)].kids_len = Len(kids[h][su[Len(su)].node])
               \/ /\ Len(su) = Len(st) - 1
                  /\ Distance(st[Len(st)]) = 0
                  /\ \A k \in 1..(Len(su) - 1) : su[k] = st[k]
                  /\ su # <<>> =>
                       /\ su[Len(su)].node = st[Len(su)].node
                       /\ su[Len(su)].i = st[Len(su)].i + 1
                       /\ su[Len(su)].kids_len = st[Len(su)].kids_len]_vars
  /\ \A h \in Handlers : (pc[h] = "filter") ~> (pc[h] # "filter")

\* A traversal that went two loops deep, removed a page and came to its end.
C18_Witness ==
  \E h \in Handlers :
    /\ pc[h] = "filtered"
    /\ kids[h] # source.kids
    /\ \E p \in Range(called[h]) \ {source.root} : source.ty[p] = "Pages"
    /\ Len(called[h]) >= 4


\* --------------------------------------------------------------- C13, C14
\* Where pat occurs in s.
Occurrences(s, pat) ==
  {k \in 1..Len(s) :
     /\ k + Len(pat) - 1 <= Len(s)
     /\ \A j \in 1..Len(pat) : s[k + j - 1] = pat[j]}

MinOf(S) == CHOOSE x \in S : \A y \in S : x <= y

\* The parenthesized token that follows position e of s: the places of the
\* next '(' and of the next ')' after it, <<0, 0>> without one.
TokenPlace(s, e) ==
  LET ls == {l \in (e + 1)..Len(s) : s[l] = "("}
      rs == IF ls = {} THEN {} ELSE {r \in (MinOf(ls) + 1)..Len(s) : s[r] = ")"}
  IN IF rs = {} THEN <<0, 0>> ELSE <<MinOf(ls), MinOf(rs)>>

HasTokenAfter(s, e) == TokenPlace(s, e) # <<0, 0>>

TokenAfter(s, e) == SubSeq(s, TokenPlace(s, e)[1] + 1, TokenPlace(s, e)[2] - 1)

RECURSIVE StripZeros(_)
StripZeros(digits) ==
  IF Len(digits) > 1 /\ digits[1] = "0" THEN StripZeros(Tail(digits)) ELSE digits

\* Digit strings of equal length compared as numbers.
DigitsLeq(a, b) ==
  \/ a = b
  \/ \E k \in DOMAIN a :
       /\ \A j \in 1..(k - 1) : a[j] = b[j]
       /\ DigitOf(a[k]) < DigitOf(b[k])

\* The decimal integer written in tok lies in the range of an i32.
FitsI32(tok) ==
  LET d == StripZeros(Unsigned(tok))
      limit == IF tok[1] = "-"
                 THEN <<"2", "1", "4", "7", "4", "8", "3", "6", "4", "8">>
                 ELSE <<"2", "1", "4", "7", "4", "8", "3", "6", "4", "7">>
  IN Len(d) < Len(limit) \/ (Len(d) = Len(limit) /\ DigitsLeq(d, limit))

\* The end of the occurrence of marker m that starts at k.
EndOf(m, k) == k + Len(m) - 1

\* The token after the occurrence of m at k is a decimal integer.
IntegerAfter(s, m, k) ==
  /\ HasTokenAfter(s, EndOf(m, k))
  /\ SignedInt(TokenAfter(s, EndOf(m, k)))

\* Marker form m is in s, and the token after its first occurrence is a
\* decimal integer in the range of an i32.
YieldsNumber(s, m) ==
  /\ Occurrences(s, m) # {}
  /\ IntegerAfter(s, m, MinOf(Occurrences(s, m)))
  /\ FitsI32(TokenAfter(s, EndOf(m, MinOf(Occurrences(s, m)))))

NumberAfterFirst(s, m) ==
  IntValue(TokenAfter(s, EndOf(m, MinOf(Occurrences(s, m)))))

Undecodable(bytes) == \E i \in DOMAIN bytes : bytes[i] = InvalidByte

\* ---------------------------------------------------------------------- C13
\* C13 as stated: read_exercise_number returns no label whenever the content
\* holds neither marker form, or is not decodable as text, or the token that
\* follows a found marker is no decimal integer, whatever comes after it.
C13_NoLabelCases ==
  (scanned.done /\ stream.contents = "Ok") =>
    LET s == stream.bytes
    IN (\/ Occurrences(s, KernedMarker) = {} /\ Occurrences(s, PlainMarker) = {}
        \/ Undecodable(s)
        \/ \E m \in {KernedMarker, PlainMarker} :
             /\ Occurrences(s, m) # {}
             /\ HasTokenAfter(s, EndOf(m, MinOf(Occurrences(s, m))))
             /\ ~SignedInt(TokenAfter(s, EndOf(m, MinOf(Occurrences(s, m))))))
         => scanned.val = None

\* C13 amended: read_exercise_number returns no label or an i32 on every
\* page, and no label whenever the page has no readable content, or the
\* content holds neither marker form, or is not decodable as text, or no
\* marker form it holds has its first occurrence followed by a parenthesized
\* token that is an i32.
C13_NoLabelUnlessAFormYields ==
  scanned.done =>
    /\ scanned.val = None
         \/ (Len(scanned.val) = 1 /\ scanned.val[1] \in I32Min..I32Max)
    /\ stream.contents # "Ok" => scanned.val = None
    /\ stream.contents = "Ok" =>
         LET s == stream.bytes
         IN (\/ Occurrences(s, KernedMarker) = {} /\ Occurrences(s, PlainMarker) = {}
             \/ Undecodable(s)
             \/ ~YieldsNumber(s, KernedMarker) /\ ~YieldsNumber(s, PlainMarker))
              => scanned.val = None

\* Both marker forms are in the content, each followed by a token that is no
\* number, and the scan has returned no label.
C13_Witness ==
  /\ scanned.done
  /\ stream.contents = "Ok"
  /\ ~Undecodable(stream.bytes)
  /\ Occurrences(stream.bytes, KernedMarker) # {}
  /\ Occurrences(stream.bytes, PlainMarker) # {}
  /\ HasTokenAfter(stream.bytes,
                   EndOf(PlainMarker, MinOf(Occurrences(stream.bytes, PlainMarker))))
  /\ ~YieldsNumber(stream.bytes, KernedMarker)
  /\ ~YieldsNumber(stream.bytes, PlainMarker)
  /\ scanned.val = None

\* ---------------------------------------------------------------------- C14
\* C14 as stated: text content that holds a marker form, kerned or plain,
\* followed by a parenthesized integer makes read_exercise_number return
\* that integer, for every integer.
C14_MarkerForms ==
  (scanned.done /\ stream.contents = "Ok" /\ ~Undecodable(stream.bytes)) =>
    LET s == stream.bytes
    IN \A m \in {KernedMarker, PlainMarker} :
         \A k \in Occurrences(s, m) :
           IntegerAfter(s, m, k) =>
             /\ IsSome(scanned.val)
             /\ FitsI32(TokenAfter(s, EndOf(m, k)))
             /\ scanned.val[1] = IntValue(TokenAfter(s, EndOf(m, k)))

\* C14 amended: on content decodable as text, for every integer n in the
\* range of an i32: if the first occurrence of the kerned form is followed by
\* the token n, read_exercise_number returns n; if the first occurrence of
\* the plain form is followed by the token n, and the first occurrence of
\* the kerned form, if any, is followed by no such token, it returns n.
C14_MarkerFormsI32 ==
  (scanned.done /\ stream.contents = "Ok" /\ ~Undecodable(stream.bytes)) =>
    LET s == stream.bytes
    IN /\ YieldsNumber(s, KernedMarker) =>
            scanned.val = Some(NumberAfterFirst(s, KernedMarker))
       /\ (YieldsNumber(s, PlainMarker) /\ ~YieldsNumber(s, KernedMarker)) =>
            scanned.val = Some(NumberAfterFirst(s, PlainMarker))

\* The number after the plain form was returned from content that also
\* holds the kerned form, followed by no number.
C14_Witness ==
  /\ scanned.done
  /\ stream.contents = "Ok"
  /\ ~Undecodable(stream.bytes)
  /\ Occurrences(stream.bytes, KernedMarker) # {}
  /\ ~YieldsNumber(stream.bytes, KernedMarker)
  /\ YieldsNumber(stream.bytes, PlainMarker)
  /\ scanned.val = Some(NumberAfterFirst(stream.bytes, PlainMarker))


\* ---------------------------------------------------------------------- C12
RECURSIVE AttachedIn(_, _)
\* Node n is reachable from the root through the Kids arrays ks.
AttachedIn(ks, n) ==
  \/ n = source.root
  \/ \E p \in Nodes : n \in Range(ks[p]) /\ AttachedIn(ks, p)

\* The Page nodes the Kids arrays ks hold on to.
KeptLeaves(ks) == {n \in Nodes : source.ty[n] = "Page" /\ AttachedIn(ks, n)}

\* C12: an extraction keeps the same leaves, the same number of them, and
\* sees the same requested numbers as an earlier extraction of the same
\* requested list did, whatever requests were served before or between them.
C12_SameRequestSameOutcome ==
  \A h \in Handlers :
    (/\ pc[h] \in {"filtered", "extracted"}
     /\ kids[h] # <<>>
     /\ prior # None
     /\ exercise_numbers[h] = prior[1].exercise_numbers) =>
      /\ KeptLeaves(kids[h]) = KeptLeaves(prior[1].kids)
      /\ count[h] = prior[1].count
      /\ not_seen[h] = prior[1].not_seen
      /\ pc[h] = "extracted" =>
           (result[h] = "MissingExercise") = (prior[1].not_seen # <<>>)

\* A later extraction of the logged list has finished its traversal, with
\* some leaves kept and some removed.
C12_Witness ==
  \E h \in Handlers :
    /\ pc[h] = "filtered"
    /\ prior # None
    /\ exercise_numbers[h] = prior[1].exercise_numbers
    /\ KeptLeaves(kids[h]) # {}
    /\ KeptLeaves(kids[h]) # KeptLeaves(source.kids)

=============================================================================
